---- MODULE Spec2Model ----
(***************************************************************************)
(* no-side-effects: the Result constructors ok / error and the adapters    *)
(* tryCatch / tryCatchAsync of src/src/index.ts, as a state machine of one  *)
(* caller that issues calls one after the other.                           *)
(*                                                                         *)
(* JavaScript values are records with a "type" field; the records built by *)
(* ok and error are the object literals of the source, field for field.    *)
(* Error objects carry an "id": the identity of the object on the heap.    *)
(***************************************************************************)
EXTENDS Integers, Sequences, FiniteSets, TLC

VARIABLES pc, call, result, fnPromise, log, nextId, calls

vars == <<pc, call, result, fnPromise, log, nextId, calls>>

\* Number of calls the caller issues in one run.
MaxCalls == 2

(***************************************************************************)
(* JavaScript values                                                        *)
(***************************************************************************)
Undefined == [type |-> "undefined"]

Null == [type |-> "null"]

Str(s) == [type |-> "string", s |-> s]

Num(n) == [type |-> "number", n |-> n]

\* An object literal { code: 42 }, and the same object created with
\* Object.create(null): it has no toString to convert it with.
PlainObject == [type |-> "object", proto |-> "Object", props |-> [code |-> Num(42)]]

NullProtoObject == [type |-> "object", proto |-> "null", props |-> [code |-> Num(42)]]

\* new Error(message, { cause }): a fresh object, identity id.
NewError(id, message, cause) ==
  [type |-> "error", id |-> id, message |-> message, cause |-> cause]

\* Error objects that exist before any call: new Error("Not found"), and
\* new Error("Parse failed", { cause }) whose cause chain holds the first one.
NotFound == NewError(1, "Not found", Undefined)

Wrapped == NewError(2, "Parse failed", NotFound)

PreErrors == {NotFound, Wrapped}

FirstFreeId == Cardinality(PreErrors) + 1

\* A function value, known by its name.
Fun(name) == [type |-> "function", name |-> name]

\* typeof v === "function"
IsFunction(v) == v.type = "function"

\* err instanceof Error
InstanceOfError(v) == v.type = "error"

\* !v : the falsy values are undefined, null, "", 0 (and false, NaN).
Falsy(v) ==
  \/ v.type \in {"undefined", "null"}
  \/ v.type = "string" /\ v.s = ""
  \/ v.type = "number" /\ v.n = 0

Digit(d) ==
  CASE d = 0 -> "0" [] d = 1 -> "1" [] d = 2 -> "2" [] d = 3 -> "3"
    [] d = 4 -> "4" [] d = 5 -> "5" [] d = 6 -> "6" [] d = 7 -> "7"
    [] d = 8 -> "8" [] d = 9 -> "9"

RECURSIVE NatToString(_)
NatToString(n) ==
  IF n < 10 THEN Digit(n) ELSE NatToString(n \div 10) \o Digit(n % 10)

\* A completion: how a call ends (return / throw), with what value, the
\* calls it made to the caller's functions, and the next free heap id.
Return(v, lg, nid) == [kind |-> "return", value |-> v, log |-> lg, nid |-> nid]

Throw(v, lg, nid) == [kind |-> "throw", value |-> v, log |-> lg, nid |-> nid]

\* String(v). It throws a TypeError for an object without toString.
String(v, nid) ==
  CASE v.type = "undefined" -> Return("undefined", <<>>, nid)
    [] v.type = "null" -> Return("null", <<>>, nid)
    [] v.type = "string" -> Return(v.s, <<>>, nid)
    [] v.type = "number" ->
         Return(IF v.n < 0 THEN "-" \o NatToString(-v.n) ELSE NatToString(v.n),
                <<>>, nid)
    [] v.type = "error" -> Return("Error: " \o v.message, <<>>, nid)
    [] v.type = "function" -> Return(v.name, <<>>, nid)
    [] v.type = "object" ->
         IF v.proto = "null"
           THEN Throw(NewError(nid, "Cannot convert object to primitive value",
                               Undefined), <<>>, nid + 1)
           ELSE Return("[object Object]", <<>>, nid)

\* The i-th argument of a call: undefined when it was not passed.
Arg(args, i) == IF i <= Len(args) THEN args[i] ELSE Undefined

(***************************************************************************)
(* The Result constructors                                                  *)
(***************************************************************************)
error(args) == [status |-> "error", error |-> Arg(args, 1), tag |-> Arg(args, 2)]

ok(args) == [status |-> "success", data |-> Arg(args, 1)]

(***************************************************************************)
(* The caller's functions: what fn and the handler do when they are called  *)
(***************************************************************************)
\* The entries of log: the calls the adapter makes to the caller's functions.
FnEvent == [ev |-> "fn"]

OnErrorEvent(arg) == [ev |-> "onError", arg |-> arg]

\* A handler (err) => ... of type OnError<T>, called with err.
\*   handleApiError: error(new Error("API request failed"), "API_ERROR")
\*   withCause:      error(new Error("Unable to process the input data",
\*                                   { cause: err }), "JSON_PARSE_ERROR")
\*   rethrow:        throw err
OnError(h, err, nid) ==
  CASE h.name = "handleApiError" ->
         Return(error(<<NewError(nid, "API request failed", Undefined),
                        Str("API_ERROR")>>), <<>>, nid + 1)
    [] h.name = "withCause" ->
         Return(error(<<NewError(nid, "Unable to process the input data", err),
                        Str("JSON_PARSE_ERROR")>>), <<>>, nid + 1)
    [] h.name = "rethrow" -> Throw(err, <<>>, nid)

Handlers == {Fun("handleApiError"), Fun("withCause"), Fun("rethrow")}

\* The second argument: absent (undefined), a string tag, or a handler.
Tags == {Str(""), Str("STORAGE_ERROR"), Str("DATABASE_ERROR")}

Seconds == {Undefined} \cup Tags \cup Handlers

\* What a computation returns (or its promise resolves with); ok(<<>>) is
\* the already wrapped record of a computation without a value.
ReturnValues ==
  {Undefined, Null, Str("John"), Str(""), Num(42), Num(0), PlainObject, ok(<<>>)}

\* What a computation throws (or its promise rejects with).
ThrownValues ==
  PreErrors \cup {Undefined, Null, Str("raw-string"), Str(""), Num(42), Num(0),
                  PlainObject, NullProtoObject}

\* fn: () => R, by what it does when called.
SyncFns ==
  [kind : {"return"}, settle : {"none"}, value : ReturnValues]
    \cup [kind : {"throw"}, settle : {"none"}, value : ThrownValues]

\* fn: () => Promise<R>: it throws before it returns a promise, or returns a
\* promise that is fulfilled, rejected, or never settled.
AsyncFns ==
  [kind : {"throw"}, settle : {"none"}, value : ThrownValues]
    \cup [kind : {"promise"}, settle : {"fulfilled"}, value : ReturnValues]
    \cup [kind : {"promise"}, settle : {"rejected"}, value : ThrownValues]
    \cup {[kind |-> "promise", settle |-> "never", value |-> Undefined]}

(***************************************************************************)
(* tryCatch                                                                 *)
(***************************************************************************)
\* A catch clause that tests instanceof before it looks at the second
\* argument: a handler is bypassed for a thrown Error.
tryCatchCatchInstanceofFirst(err, tagOrOnError, nid) ==
  IF InstanceOfError(err)
    THEN Return(error(<<err, tagOrOnError>>), <<>>, nid)
  ELSE IF IsFunction(tagOrOnError)
    THEN LET r == OnError(tagOrOnError, err, nid)
         IN  [r EXCEPT !.log = <<OnErrorEvent(err)>>]
  ELSE IF Falsy(tagOrOnError)
    THEN Throw(NewError(nid, "Tag is required", Undefined), <<>>, nid + 1)
  ELSE LET s == String(err, nid)
       IN  IF s.kind = "throw"
             THEN s
             ELSE Return(error(<<NewError(s.nid, s.value, Undefined),
                                 tagOrOnError>>), <<>>, s.nid + 1)

\* A catch clause without the "Tag is required" test.
tryCatchCatchNoTagCheck(err, tagOrOnError, nid) ==
  IF IsFunction(tagOrOnError)
    THEN LET r == OnError(tagOrOnError, err, nid)
         IN  [r EXCEPT !.log = <<OnErrorEvent(err)>>]
  ELSE IF InstanceOfError(err)
    THEN Return(error(<<err, tagOrOnError>>), <<>>, nid)
  ELSE LET s == String(err, nid)
       IN  IF s.kind = "throw"
             THEN s
             ELSE Return(error(<<NewError(s.nid, s.value, Undefined),
                                 tagOrOnError>>), <<>>, s.nid + 1)

\* The catch clause of tryCatch, entered with the caught value err.
tryCatchCatch(err, tagOrOnError, nid) ==
  IF IsFunction(tagOrOnError)
    THEN LET r == OnError(tagOrOnError, err, nid)
         IN  [r EXCEPT !.log = <<OnErrorEvent(err)>>]
  ELSE IF Falsy(tagOrOnError)
    THEN Throw(NewError(nid, "Tag is required", Undefined), <<>>, nid + 1)
  ELSE IF InstanceOfError(err)
    THEN Return(error(<<err, tagOrOnError>>), <<>>, nid)
  ELSE LET s == String(err, nid)
       IN  IF s.kind = "throw"
             THEN s
             ELSE Return(error(<<NewError(s.nid, s.value, Undefined),
                                 tagOrOnError>>), <<>>, s.nid + 1)

\* A tryCatch that returns fn() as it is, without ok.
tryCatchReturnsRaw(fn, tagOrOnError, nid) ==
  IF fn.kind = "return"
    THEN Return(fn.value, <<FnEvent>>, nid)
    ELSE LET r == tryCatchCatch(fn.value, tagOrOnError, nid)
         IN  [r EXCEPT !.log = <<FnEvent>> \o r.log]

\* A tryCatch that calls fn a second time when it threw.
tryCatchRetries(fn, tagOrOnError, nid) ==
  IF fn.kind = "return"
    THEN Return(ok(<<fn.value>>), <<FnEvent>>, nid)
    ELSE LET r == tryCatchCatch(fn.value, tagOrOnError, nid)
         IN  [r EXCEPT !.log = <<FnEvent, FnEvent>> \o r.log]

\* tryCatch(fn, tagOrOnError), with nid the next free heap id.
tryCatch(fn, tagOrOnError, nid) ==
  IF fn.kind = "return"
    THEN Return(ok(<<fn.value>>), <<FnEvent>>, nid)
    ELSE LET r == tryCatchCatch(fn.value, tagOrOnError, nid)
         IN  [r EXCEPT !.log = <<FnEvent>> \o r.log]

(***************************************************************************)
(* tryCatchAsync                                                            *)
(***************************************************************************)
\* A catch clause that wraps every rejection reason in a new Error, an
\* Error included.
tryCatchAsyncCatchAlwaysWraps(err, tagOrOnError, nid) ==
  IF IsFunction(tagOrOnError)
    THEN LET r == OnError(tagOrOnError, err, nid)
         IN  [r EXCEPT !.log = <<OnErrorEvent(err)>>]
  ELSE IF Falsy(tagOrOnError)
    THEN Throw(NewError(nid, "Tag is required", Undefined), <<>>, nid + 1)
  ELSE LET s == String(err, nid)
       IN  IF s.kind = "throw"
             THEN s
             ELSE Return(error(<<NewError(s.nid, s.value, Undefined),
                                 tagOrOnError>>), <<>>, s.nid + 1)

\* The catch clause of tryCatchAsync.
tryCatchAsyncCatch(err, tagOrOnError, nid) ==
  IF IsFunction(tagOrOnError)
    THEN LET r == OnError(tagOrOnError, err, nid)
         IN  [r EXCEPT !.log = <<OnErrorEvent(err)>>]
  ELSE IF Falsy(tagOrOnError)
    THEN Throw(NewError(nid, "Tag is required", Undefined), <<>>, nid + 1)
  ELSE IF InstanceOfError(err)
    THEN Return(error(<<err, tagOrOnError>>), <<>>, nid)
  ELSE LET s == String(err, nid)
       IN  IF s.kind = "throw"
             THEN s
             ELSE Return(error(<<NewError(s.nid, s.value, Undefined),
                                 tagOrOnError>>), <<>>, s.nid + 1)

\* The async function after its await: the awaited promise p has settled.
tryCatchAsyncResumed(p, tagOrOnError, nid) ==
  IF p.state = "fulfilled"
    THEN Return(ok(<<p.value>>), <<>>, nid)
    ELSE tryCatchAsyncCatch(p.value, tagOrOnError, nid)

\* The promise an async function returns, settled by its completion.
Settled(c) ==
  [kind |-> IF c.kind = "return" THEN "fulfilled" ELSE "rejected",
   value |-> c.value]

(***************************************************************************)
(* The caller                                                               *)
(***************************************************************************)
NoCall == [op |-> "none", args |-> <<>>, fn |-> Undefined,
           second |-> Undefined, startId |-> 0]

NoResult == [kind |-> "none", value |-> Undefined]

NoPromise == [state |-> "none", value |-> Undefined]

\* { error: e, tag: t } and { data: v }: the payload records of the README.
ErrorPayload(e, t) ==
  [type |-> "object", proto |-> "Object", props |-> [error |-> e, tag |-> t]]

OkPayload(v) ==
  [type |-> "object", proto |-> "Object", props |-> [data |-> v]]

OkArgs ==
  {<<>>} \cup {<<v>> : v \in ReturnValues}
    \cup {<<OkPayload(v)>> : v \in ReturnValues}

ErrorArgs ==
  {<<e, t>> : e \in PreErrors, t \in Tags}
    \cup {<<ErrorPayload(e, t)>> : e \in PreErrors, t \in Tags}

Init ==
  /\ pc = "idle"
  /\ call = NoCall
  /\ result = NoResult
  /\ fnPromise = NoPromise
  /\ log = <<>>
  /\ nextId = FirstFreeId
  /\ calls = 0

CallOk(args) ==
  /\ pc = "idle"
  /\ calls < MaxCalls
  /\ call' = [NoCall EXCEPT !.op = "ok", !.args = args, !.startId = nextId]
  /\ result' = [kind |-> "return", value |-> ok(args)]
  /\ pc' = "done"
  /\ calls' = calls + 1
  /\ UNCHANGED <<fnPromise, log, nextId>>

CallError(args) ==
  /\ pc = "idle"
  /\ calls < MaxCalls
  /\ call' = [NoCall EXCEPT !.op = "error", !.args = args, !.startId = nextId]
  /\ result' = [kind |-> "return", value |-> error(args)]
  /\ pc' = "done"
  /\ calls' = calls + 1
  /\ UNCHANGED <<fnPromise, log, nextId>>

CallTryCatch(fn, second) ==
  /\ pc = "idle"
  /\ calls < MaxCalls
  /\ call' = [NoCall EXCEPT !.op = "tryCatch", !.fn = fn, !.second = second,
                            !.startId = nextId]
  /\ LET c == tryCatch(fn, second, nextId)
     IN  /\ result' = [kind |-> c.kind, value |-> c.value]
         /\ log' = c.log
         /\ nextId' = c.nid
  /\ pc' = "done"
  /\ calls' = calls + 1
  /\ UNCHANGED fnPromise

\* The call of tryCatchAsync, up to its await: fn is called; if it throws,
\* the catch clause runs at once, otherwise the function suspends on the
\* promise fn returned.
CallTryCatchAsync(fn, second) ==
  /\ pc = "idle"
  /\ calls < MaxCalls
  /\ call' = [NoCall EXCEPT !.op = "tryCatchAsync", !.fn = fn,
                            !.second = second, !.startId = nextId]
  /\ calls' = calls + 1
  /\ IF fn.kind = "throw"
       THEN LET c == tryCatchAsyncCatch(fn.value, second, nextId)
            IN  /\ result' = Settled(c)
                /\ log' = <<FnEvent>> \o c.log
                /\ nextId' = c.nid
                /\ pc' = "done"
                /\ fnPromise' = NoPromise
       ELSE /\ result' = [kind |-> "pending", value |-> Undefined]
            /\ log' = <<FnEvent>>
            /\ fnPromise' = [state |-> "pending", value |-> Undefined]
            /\ pc' = "awaiting"
            /\ UNCHANGED nextId

\* The promise fn returned settles (never, for a computation that hangs).
FnSettles ==
  /\ pc = "awaiting"
  /\ fnPromise.state = "pending"
  /\ call.fn.settle # "never"
  /\ fnPromise' = [state |-> call.fn.settle, value |-> call.fn.value]
  /\ UNCHANGED <<pc, call, result, log, nextId, calls>>

\* tryCatchAsync resumes after its await.
TryCatchAsyncResume ==
  /\ pc = "awaiting"
  /\ fnPromise.state \in {"fulfilled", "rejected"}
  /\ LET c == tryCatchAsyncResumed(fnPromise, call.second, nextId)
     IN  /\ result' = Settled(c)
         /\ log' = log \o c.log
         /\ nextId' = c.nid
  /\ pc' = "done"
  /\ UNCHANGED <<call, fnPromise, calls>>

\* The caller takes the result and goes on to its next call.
NextCall ==
  /\ pc = "done"
  /\ pc' = "idle"
  /\ call' = NoCall
  /\ result' = NoResult
  /\ fnPromise' = NoPromise
  /\ log' = <<>>
  /\ UNCHANGED <<nextId, calls>>

Next ==
  \/ \E args \in OkArgs : CallOk(args)
  \/ \E args \in ErrorArgs : CallError(args)
  \/ \E fn \in SyncFns, second \in Seconds : CallTryCatch(fn, second)
  \/ \E fn \in AsyncFns, second \in Seconds : CallTryCatchAsync(fn, second)
  \/ FnSettles
  \/ TryCatchAsyncResume
  \/ NextCall

Spec == Init /\ [][Next]_vars

(***************************************************************************)
(* Properties                                                               *)
(***************************************************************************)
Adapters == {"tryCatch", "tryCatchAsync"}

\* The call of op has ended: returned or thrown, its promise settled.
Done(op) == pc = "done" /\ call.op = op

\* The wrapped computation ended normally with a value / with an exception.
FnReturned ==
  call.fn.kind = "return" \/ (call.fn.kind = "promise" /\ call.fn.settle = "fulfilled")

FnThrew ==
  call.fn.kind = "throw" \/ (call.fn.kind = "promise" /\ call.fn.settle = "rejected")

Count(lg, ev) == Cardinality({i \in 1..Len(lg) : lg[i].ev = ev})

\* The synchronous computation that returns / throws what the deferred one
\* resolves / rejects with.
SyncOf(fn) ==
  IF fn.kind = "promise"
    THEN [kind |-> IF fn.settle = "fulfilled" THEN "return" ELSE "throw",
          settle |-> "none", value |-> fn.value]
    ELSE fn

C2_ErrorIdentityKept ==
  (Done("tryCatch") /\ call.fn.kind = "throw" /\ InstanceOfError(call.fn.value)
     /\ call.second \in Tags) =>
    /\ result = [kind |-> "return",
                 value |-> [status |-> "error", error |-> call.fn.value,
                            tag |-> call.second]]

\* C3: when fn throws a value x that is no Error object, tryCatch(fn, t)
\* returns, for every string tag t, an error record with tag t whose error is
\* a new Error object with message String(x).
C3_NonErrorIsWrapped ==
  (Done("tryCatch") /\ call.fn.kind = "throw" /\ ~InstanceOfError(call.fn.value)
     /\ call.second \in Tags) =>
    /\ result.kind = "return"
    /\ result.value.status = "error"
    /\ result.value.tag = call.second
    /\ InstanceOfError(result.value.error)
    /\ result.value.error.id >= call.startId
    /\ String(call.fn.value, call.startId).kind = "return"
    /\ result.value.error.message = String(call.fn.value, call.startId).value

\* C4: when the second argument is a handler h and fn throws caught, h is
\* called once with caught itself and tryCatch ends the way h ends, with the
\* value h returned.
C4_HandlerDecides ==
  (Done("tryCatch") /\ call.fn.kind = "throw" /\ IsFunction(call.second)) =>
    LET h == OnError(call.second, call.fn.value, call.startId)
    IN  /\ log = <<FnEvent, OnErrorEvent(call.fn.value)>>
        /\ result = [kind |-> h.kind, value |-> h.value]

C4_Witness ==
  /\ Done("tryCatch")
  /\ call.fn = [kind |-> "throw", settle |-> "none", value |-> NotFound]
  /\ call.second = Fun("withCause")
  /\ result.kind = "return"
  /\ result.value.tag = Str("JSON_PARSE_ERROR")
  /\ result.value.error.cause = NotFound

C6_NeverPropagates ==
  (pc = "done" /\ call.op \in Adapters /\ FnThrew
     /\ call.second \in Tags \cup Handlers) =>
    /\ result.kind \in {"return", "fulfilled"}
    /\ result.value.status = "error"

\* C7: with the second argument absent, an fn that throws or rejects makes
\* tryCatch throw (tryCatchAsync reject with) a new Error "Tag is required"
\* that does not hold the caught value, and an fn that returns or resolves
\* with v still gives ok(v); and no error record made from a tag (not by a
\* handler) has an empty or absent tag.
C7_TagRequired ==
  (pc = "done" /\ call.op \in Adapters) =>
    /\ (call.second = Undefined /\ FnThrew) =>
         /\ result.kind \in {"throw", "rejected"}
         /\ result.value = NewError(call.startId, "Tag is required", Undefined)
         /\ result.value # call.fn.value
    /\ (call.second = Undefined /\ FnReturned) =>
         /\ result.kind \in {"return", "fulfilled"}
         /\ result.value = [status |-> "success", data |-> call.fn.value]
    /\ (~IsFunction(call.second) /\ result.kind \in {"return", "fulfilled"}
          /\ result.value.status = "error") =>
         /\ result.value.tag.type = "string"
         /\ result.value.tag.s # ""

C7_Witness ==
  /\ Done("tryCatchAsync")
  /\ call.second = Undefined
  /\ call.fn.settle = "rejected"
  /\ call.fn.value = NotFound
  /\ result.kind = "rejected"
  /\ result.value.message = "Tag is required"

\* C8: error({error: e, tag: t}) returns {status: "error", error: e, tag: t}
\* and ok({data: v}) returns {status: "success", data: v}: the records of
\* error(e, t) and ok(v).
C8_PayloadConvention ==
  /\ \A e \in PreErrors, t \in Tags :
       (Done("error") /\ call.args = <<ErrorPayload(e, t)>>) =>
         /\ result.value = [status |-> "error", error |-> e, tag |-> t]
         /\ result.value = error(<<e, t>>)
  /\ \A v \in ReturnValues :
       (Done("ok") /\ call.args = <<OkPayload(v)>>) =>
         /\ result.value = [status |-> "success", data |-> v]
         /\ result.value = ok(<<v>>)

\* C9: when fn returns (resolves with) the record ok() and the second
\* argument is a tag, the adapter yields {status: "success"} without data:
\* the record of fn is not wrapped in the data of another success record.
C9_NoDoubleWrap ==
  (pc = "done" /\ call.op \in Adapters /\ FnReturned
     /\ call.fn.value = ok(<<>>) /\ call.second \in Tags) =>
    /\ result.value = [status |-> "success", data |-> Undefined]

\* C10: in every call of tryCatch or tryCatchAsync, fn is called exactly
\* once, and first; the handler is called at most once, only when it was
\* supplied and only after fn threw or its promise rejected, never when fn
\* returned or resolved; the adapter calls nothing else.
C10_CallsOnce ==
  (call.op \in Adapters) =>
    /\ Len(log) >= 1 /\ log[1] = FnEvent
    /\ Count(log, "fn") = 1
    /\ Count(log, "onError") <= 1
    /\ Len(log) = Count(log, "fn") + Count(log, "onError")
    /\ Count(log, "onError") = 1 =>
         /\ IsFunction(call.second)
         /\ FnThrew
         /\ call.fn.kind = "promise" => fnPromise.state = "rejected"
         /\ log[2] = OnErrorEvent(call.fn.value)
    /\ (pc = "done" /\ FnThrew /\ IsFunction(call.second)) =>
         Count(log, "onError") = 1
    /\ pc = "awaiting" => log = <<FnEvent>>

C10_Witness ==
  /\ Done("tryCatchAsync")
  /\ call.fn.settle = "rejected"
  /\ call.second = Fun("handleApiError")
  /\ log = <<FnEvent, OnErrorEvent(call.fn.value)>>
  /\ calls = MaxCalls

====
